---- MODULE Spec2Model ----
(***************************************************************************)
(* Model of FinDiffCall, the explicit finite-difference call-price solver  *)
(* of Numerical_Option_Pricing.ipynb.                                      *)
(*                                                                         *)
(* Every invocation is a process p with its own copy of the locals of the  *)
(* function (delta_t, S_max, delta_S, c, i, j) and a program counter that  *)
(* walks the statements of the function body.  Numbers are exact rationals *)
(* <<numerator, denominator>> (denominator > 0, lowest terms).  True        *)
(* division, floor, max, pow, raising on a zero divisor and list indexing  *)
(* with negative wrap-around and IndexError are modelled as the            *)
(* interpreter evaluates them.  The rounding of binary floating point is   *)
(* abstracted where the result depends on it continuously, and kept where  *)
(* it does not: math.floor(S0/delta_S) takes the floor of a quotient whose *)
(* exact value M/5 can be an integer, and the float delta_S =              *)
(* (5*S0)/M is above the exact 5*S0/M for some S0 (for S0 = 0.11, M = 5    *)
(* the interpreter gives S0/delta_S < 1).  The argument field dS_up says   *)
(* whether the S0 of the call is such a float.                             *)
(***************************************************************************)
EXTENDS Integers, Sequences, FiniteSets, TLC

VARIABLES in, pc, delta_t, S_max, delta_S, c, i, j, ret, log, u, d, prob

vars == <<in, pc, delta_t, S_max, delta_S, c, i, j, ret, log, u, d, prob>>

(***************************************************************************)
(* Bounds of the single-invocation specification.                          *)
(***************************************************************************)
MaxN == 3
MaxM == 5

(***************************************************************************)
(* Rational arithmetic.                                                    *)
(***************************************************************************)
Abs(x) == IF x < 0 THEN -x ELSE x

RECURSIVE GCD(_, _)
GCD(a, b) == IF b = 0 THEN a ELSE GCD(b, a % b)

Norm(n, m) == LET g == GCD(Abs(n), m) IN <<n \div g, m \div g>>

Q(n, m) == Norm(n, m)

FromInt(k) == <<k, 1>>

Zero == FromInt(0)

One == FromInt(1)

Half == Q(1, 2)

RNeg(x) == <<-x[1], x[2]>>

RAdd(x, y) ==
    LET g == GCD(x[2], y[2])
    IN  Norm(x[1] * (y[2] \div g) + y[1] * (x[2] \div g), (x[2] \div g) * y[2])

RSub(x, y) == RAdd(x, RNeg(y))

RMul(x, y) ==
    LET g1 == GCD(Abs(x[1]), y[2])
        g2 == GCD(Abs(y[1]), x[2])
    IN  Norm((x[1] \div g1) * (y[1] \div g2), (x[2] \div g2) * (y[2] \div g1))

RInv(y) == IF y[1] > 0 THEN <<y[2], y[1]>> ELSE <<-y[2], -y[1]>>

\* x / y for y # 0 (the interpreter raises ZeroDivisionError for y = 0; the
\* callers test the divisor first)
RDiv(x, y) == RMul(x, RInv(y))

RLess(x, y) ==
    LET g == GCD(x[2], y[2])
    IN  x[1] * (y[2] \div g) < y[1] * (x[2] \div g)

RLeq(x, y) == ~RLess(y, x)

RMax(x, y) == IF RLess(x, y) THEN y ELSE x

RAbs(x) == <<Abs(x[1]), x[2]>>

\* math.floor
Floor(x) == x[1] \div x[2]

\* math.pow with a natural exponent
RECURSIVE pow(_, _)
pow(x, n) == IF n = 0 THEN One ELSE RMul(x, pow(x, n - 1))

\* range(a, b)
range(a, b) == [start |-> a, stop |-> b]

InRange(k, rg) == rg.start <= k /\ k < rg.stop

\* range(a, b, s), s # 0
range3(a, b, s) == [start |-> a, stop |-> b, step |-> s]

InRange3(k, rg) ==
    IF rg.step > 0 THEN rg.start <= k /\ k < rg.stop
                   ELSE rg.start >= k /\ k > rg.stop

(***************************************************************************)
(* Inputs.                                                                 *)
(***************************************************************************)
S0s == {FromInt(1), FromInt(2)}

Ks == {FromInt(1), FromInt(3)}

rs == {FromInt(-1), FromInt(0), FromInt(1)}

sigmas == {Q(1, 2), FromInt(1)}

Ts == {Q(1, 2), FromInt(1)}

Inputs ==
    [S0 : S0s, K : Ks, r : rs, sigma : sigmas, T : Ts, N : 0..MaxN,
     M : 0..MaxM, dS_up : BOOLEAN]

\* the domain of the contract: S0, K, T, sigma > 0 and N, M positive integers
Valid(a) ==
    /\ RLess(Zero, a.S0) /\ RLess(Zero, a.K)
    /\ RLess(Zero, a.T) /\ RLess(Zero, a.sigma)
    /\ a.N >= 1 /\ a.M >= 1

Procs == DOMAIN in

(***************************************************************************)
(* Values a call can end with.                                             *)
(***************************************************************************)
NoResult == [kind |-> "none", val |-> Zero]

Number(v) == [kind |-> "number", val |-> v]

\* return "time resolution is not great enough"
StabilityFailure == [kind |-> "string", val |-> Zero]

ZeroDivisionError == [kind |-> "ZeroDivisionError", val |-> Zero]

IndexError == [kind |-> "IndexError", val |-> Zero]

(***************************************************************************)
(* The expressions of the function body.                                   *)
(***************************************************************************)
\* math.pow(sigma,2)*(M-1) + 0.5*r
StabilityDivisor(a) ==
    RAdd(RMul(pow(a.sigma, 2), FromInt(a.M - 1)), RMul(Half, a.r))

\* the comparison with >= in place of >
UnstableGeq(dt, divisor) == RLeq(RDiv(One, divisor), dt)

\* delta_t > 1/( ... ), for a divisor that is not zero
Unstable(dt, divisor) == RLess(RDiv(One, divisor), dt)

\* the payoff without the floor at 0
PayoffNoMax(jv, dS, K) == RSub(RMul(FromInt(jv), dS), K)

\* max( j*delta_S - K, 0)
Payoff(jv, dS, K) == RMax(RSub(RMul(FromInt(jv), dS), K), Zero)

\* 1 - r*delta_t - math.pow(sigma,2)*math.pow(j,2)*delta_t, the factor of
\* c[i-1][j] in the interior update
MidWeight(jv, dt, sigma, r) ==
    RSub(RSub(One, RMul(r, dt)),
         RMul(RMul(pow(sigma, 2), pow(FromInt(jv), 2)), dt))

\* the right-hand side of the interior update, lo = c[i-1][j-1],
\* mid = c[i-1][j], hi = c[i-1][j+1]
UpdateValue(lo, mid, hi, jv, dt, sigma, r) ==
    LET J   == FromInt(jv)
        s2  == pow(sigma, 2)
        t1  == RMul(RMul(RMul(RMul(Half, lo), J), dt), RSub(RMul(s2, J), r))
        t2  == RMul(mid, MidWeight(jv, dt, sigma, r))
        t3  == RMul(RMul(RMul(RMul(Half, hi), J), dt), RAdd(RMul(s2, J), r))
    IN  RAdd(RAdd(t1, t2), t3)

\* the column rounded to the nearest node instead of rounded down
j0Nearest(S0, dS, up) == Floor(RAdd(RDiv(S0, dS), Half))

\* math.floor(S0/delta_S), dS the exact value of 5*S0/M and up telling that
\* the float delta_S is above dS: the float quotient is then below S0/dS,
\* and its floor is one less whenever S0/dS is an integer
j0(S0, dS, up) ==
    LET q == RDiv(S0, dS)
    IN  IF up /\ q[2] = 1 THEN q[1] - 1 ELSE Floor(q)

\* range(M+1) of the payoff loop
PayoffCols(M) == range(0, M + 1)

\* the boundary loop starting at row 1
BoundaryRowsFrom1(N) == range(1, N + 1)

\* range(N+1) of the boundary loop
BoundaryRows(N) == range(0, N + 1)

\* the outer update loop stopping one row early
UpdateRowsShort(N) == range(1, N)

\* range(1, N+1) of the outer update loop
UpdateRows(N) == range(1, N + 1)

\* the inner update loop running up to column M
UpdateColsToM(M) == range(1, M + 1)

\* range(1, M) of the inner update loop
UpdateCols(M) == range(1, M)

\* the update reading the row it writes
SameRow(iv) == iv

\* the row the update of row i reads
PrevRow(iv) == iv - 1

\* one grid shared by all calls
SharedGrid(p) == 1

\* the grid a call works on: the list bound to its local name c
Owner(p) == p

\* [[0 for j in range(M+1)] for i in range(N+1)]
NewGrid(N, M) == [a \in 0..N |-> [b \in 0..M |-> Zero]]

NoGrid == <<>>

\* list indexing: an index k of a list of length n denotes k for 0 <= k < n,
\* n + k for -n <= k < 0, and raises IndexError otherwise
IndexOk(k, n) == -n <= k /\ k < n

Wrap(k, n) == IF k < 0 THEN n + k ELSE k

Rows(g) == Cardinality(DOMAIN g)

Cols(g, a) == Cardinality(DOMAIN g[Wrap(a, Rows(g))])

CellOk(g, a, b) == IndexOk(a, Rows(g)) /\ IndexOk(b, Cols(g, a))

\* c[a][b]
Get(g, a, b) == g[Wrap(a, Rows(g))][Wrap(b, Cols(g, a))]

\* c[a][b] = v
Put(g, a, b, v) ==
    [g EXCEPT ![Wrap(a, Rows(g))][Wrap(b, Cols(g, a))] = v]

(***************************************************************************)
(* The log of grid accesses (history variable): one event per statement    *)
(* that touches the grid, with the indices as written in the statement.    *)
(***************************************************************************)
Event(op, cell, reads) == [op |-> op, w |-> cell, rd |-> reads]

NoCell == <<>>

(***************************************************************************)
(* The statements of FinDiffCall, one action per statement or loop step.   *)
(***************************************************************************)
\* delta_t = T/N; S_max = 5*S0; delta_S = S_max/M
Derive(p) ==
    /\ pc[p] = "start"
    /\ LET a == in[p] IN
       IF a.N = 0
       THEN /\ pc' = [pc EXCEPT ![p] = "done"]
            /\ ret' = [ret EXCEPT ![p] = ZeroDivisionError]
            /\ UNCHANGED <<delta_t, S_max, delta_S>>
       ELSE /\ delta_t' = [delta_t EXCEPT ![p] = RDiv(a.T, FromInt(a.N))]
            /\ S_max' = [S_max EXCEPT ![p] = RMul(FromInt(5), a.S0)]
            /\ IF a.M = 0
               THEN /\ pc' = [pc EXCEPT ![p] = "done"]
                    /\ ret' = [ret EXCEPT ![p] = ZeroDivisionError]
                    /\ UNCHANGED delta_S
               ELSE /\ delta_S' = [delta_S EXCEPT ![p] =
                                      RDiv(S_max'[p], FromInt(a.M))]
                    /\ pc' = [pc EXCEPT ![p] = "check"]
                    /\ UNCHANGED ret
    /\ UNCHANGED <<in, c, i, j, log, u, d, prob>>

\* if( delta_t > 1/( math.pow(sigma,2)*(M-1) + 0.5*r ) ): return "..."
CheckStability(p) ==
    /\ pc[p] = "check"
    /\ LET divisor == StabilityDivisor(in[p]) IN
       IF divisor = Zero
       THEN /\ pc' = [pc EXCEPT ![p] = "done"]
            /\ ret' = [ret EXCEPT ![p] = ZeroDivisionError]
       ELSE IF Unstable(delta_t[p], divisor)
       THEN /\ pc' = [pc EXCEPT ![p] = "done"]
            /\ ret' = [ret EXCEPT ![p] = StabilityFailure]
       ELSE /\ pc' = [pc EXCEPT ![p] = "alloc"]
            /\ UNCHANGED ret
    /\ UNCHANGED <<in, delta_t, S_max, delta_S, c, i, j, log, u, d, prob>>

\* c = [[0 for j in range(M+1)] for i in range(N+1)]
Alloc(p) ==
    /\ pc[p] = "alloc"
    /\ c' = [c EXCEPT ![Owner(p)] = NewGrid(in[p].N, in[p].M)]
    /\ j' = [j EXCEPT ![p] = PayoffCols(in[p].M).start]
    /\ pc' = [pc EXCEPT ![p] = "payoff"]
    /\ UNCHANGED <<in, delta_t, S_max, delta_S, i, ret, log, u, d, prob>>

\* for j in range(M+1): c[0][j] = max( j*delta_S - K, 0)
PayoffStep(p) ==
    /\ pc[p] = "payoff"
    /\ LET g == c[Owner(p)] IN
       IF ~InRange(j[p], PayoffCols(in[p].M))
       THEN /\ i' = [i EXCEPT ![p] = BoundaryRows(in[p].N).start]
            /\ pc' = [pc EXCEPT ![p] = "boundary"]
            /\ UNCHANGED <<c, j, ret, log>>
       ELSE /\ log' = [log EXCEPT ![p] =
                          Append(@, Event("payoff", <<0, j[p]>>, {}))]
            /\ IF CellOk(g, 0, j[p])
               THEN /\ c' = [c EXCEPT ![Owner(p)] =
                                Put(g, 0, j[p],
                                    Payoff(j[p], delta_S[p], in[p].K))]
                    /\ j' = [j EXCEPT ![p] = @ + 1]
                    /\ UNCHANGED <<pc, ret>>
               ELSE /\ pc' = [pc EXCEPT ![p] = "done"]
                    /\ ret' = [ret EXCEPT ![p] = IndexError]
                    /\ UNCHANGED <<c, j>>
            /\ UNCHANGED i
    /\ UNCHANGED <<in, delta_t, S_max, delta_S, u, d, prob>>

\* for i in range(N+1): c[i][0] = 0; c[i][M] = S_max
BoundaryStep(p) ==
    /\ pc[p] = "boundary"
    /\ LET g  == c[Owner(p)]
           M  == in[p].M
           g1 == Put(g, i[p], 0, Zero)
       IN
       IF ~InRange(i[p], BoundaryRows(in[p].N))
       THEN /\ i' = [i EXCEPT ![p] = UpdateRows(in[p].N).start]
            /\ pc' = [pc EXCEPT ![p] = "update_i"]
            /\ UNCHANGED <<c, ret, log>>
       ELSE IF ~CellOk(g, i[p], 0)
       THEN /\ log' = [log EXCEPT ![p] =
                          Append(@, Event("boundary", <<i[p], 0>>, {}))]
            /\ pc' = [pc EXCEPT ![p] = "done"]
            /\ ret' = [ret EXCEPT ![p] = IndexError]
            /\ UNCHANGED <<c, i>>
       ELSE /\ log' = [log EXCEPT ![p] =
                          Append(Append(@,
                              Event("boundary", <<i[p], 0>>, {})),
                              Event("boundary", <<i[p], M>>, {}))]
            /\ IF CellOk(g1, i[p], M)
               THEN /\ c' = [c EXCEPT ![Owner(p)] =
                                Put(g1, i[p], M, S_max[p])]
                    /\ i' = [i EXCEPT ![p] = @ + 1]
                    /\ UNCHANGED <<pc, ret>>
               ELSE /\ c' = [c EXCEPT ![Owner(p)] = g1]
                    /\ pc' = [pc EXCEPT ![p] = "done"]
                    /\ ret' = [ret EXCEPT ![p] = IndexError]
                    /\ UNCHANGED i
    /\ UNCHANGED <<in, delta_t, S_max, delta_S, j, u, d, prob>>

\* for i in range(1, N+1): (the head of the outer loop)
UpdateRowHead(p) ==
    /\ pc[p] = "update_i"
    /\ IF InRange(i[p], UpdateRows(in[p].N))
       THEN /\ j' = [j EXCEPT ![p] = UpdateCols(in[p].M).start]
            /\ pc' = [pc EXCEPT ![p] = "update_j"]
       ELSE /\ pc' = [pc EXCEPT ![p] = "return"]
            /\ UNCHANGED j
    /\ UNCHANGED <<in, delta_t, S_max, delta_S, c, i, ret, log, u, d, prob>>

\* for j in range(1, M): c[i][j] = 0.5*c[i-1][j-1]*... + c[i-1][j]*... +
\*                                 0.5*c[i-1][j+1]*...
UpdateCell(p) ==
    /\ pc[p] = "update_j"
    /\ LET g   == c[Owner(p)]
           a   == in[p]
           pi  == PrevRow(i[p])
           ok1 == CellOk(g, pi, j[p] - 1)
           ok2 == ok1 /\ CellOk(g, pi, j[p])
           ok3 == ok2 /\ CellOk(g, pi, j[p] + 1)
           rds == {<<pi, j[p] - 1>>}
                    \cup (IF ok1 THEN {<<pi, j[p]>>} ELSE {})
                    \cup (IF ok2 THEN {<<pi, j[p] + 1>>} ELSE {})
           reads == {<<x[1], x[2],
                       IF CellOk(g, x[1], x[2]) THEN Get(g, x[1], x[2])
                                                ELSE Zero>> : x \in rds}
       IN
       IF ~InRange(j[p], UpdateCols(a.M))
       THEN /\ i' = [i EXCEPT ![p] = @ + 1]
            /\ pc' = [pc EXCEPT ![p] = "update_i"]
            /\ UNCHANGED <<c, j, ret, log>>
       ELSE /\ log' = [log EXCEPT ![p] =
                          Append(@, Event("update", <<i[p], j[p]>>, reads))]
            /\ IF ok3 /\ CellOk(g, i[p], j[p])
               THEN /\ c' = [c EXCEPT ![Owner(p)] =
                                Put(g, i[p], j[p],
                                    UpdateValue(Get(g, pi, j[p] - 1),
                                                Get(g, pi, j[p]),
                                                Get(g, pi, j[p] + 1),
                                                j[p], delta_t[p],
                                                a.sigma, a.r))]
                    /\ j' = [j EXCEPT ![p] = @ + 1]
                    /\ UNCHANGED <<pc, ret>>
               ELSE /\ pc' = [pc EXCEPT ![p] = "done"]
                    /\ ret' = [ret EXCEPT ![p] = IndexError]
                    /\ UNCHANGED <<c, j>>
            /\ UNCHANGED i
    /\ UNCHANGED <<in, delta_t, S_max, delta_S, u, d, prob>>

\* return c[N][math.floor(S0/delta_S)]
Return(p) ==
    /\ pc[p] = "return"
    /\ pc' = [pc EXCEPT ![p] = "done"]
    /\ LET g == c[Owner(p)]
           N == in[p].N
       IN
       IF delta_S[p] = Zero
       THEN /\ ret' = [ret EXCEPT ![p] = ZeroDivisionError]
            /\ UNCHANGED log
       ELSE LET col == j0(in[p].S0, delta_S[p], in[p].dS_up) IN
            IF CellOk(g, N, col)
            THEN /\ ret' = [ret EXCEPT ![p] = Number(Get(g, N, col))]
                 /\ log' = [log EXCEPT ![p] = Append(@,
                      Event("return", NoCell, {<<N, col, Get(g, N, col)>>}))]
            ELSE /\ ret' = [ret EXCEPT ![p] = IndexError]
                 /\ log' = [log EXCEPT ![p] = Append(@,
                      Event("return", NoCell, {<<N, col, Zero>>}))]
    /\ UNCHANGED <<in, delta_t, S_max, delta_S, c, i, j, u, d, prob>>

(***************************************************************************)
(* Specifications.                                                         *)
(***************************************************************************)
StartAt(ps, label) ==
    /\ pc = [p \in ps |-> label[p]]
    /\ delta_t = [p \in ps |-> Zero]
    /\ S_max = [p \in ps |-> Zero]
    /\ delta_S = [p \in ps |-> Zero]
    /\ c = [p \in ps |-> NoGrid]
    /\ i = [p \in ps |-> 0]
    /\ j = [p \in ps |-> 0]
    /\ ret = [p \in ps |-> NoResult]
    /\ log = [p \in ps |-> <<>>]
    /\ u = [p \in ps |-> Zero]
    /\ d = [p \in ps |-> Zero]
    /\ prob = [p \in ps |-> Zero]

Start(ps) == StartAt(ps, [p \in ps |-> "start"])

\* one call, with any arguments of the input sets
Init ==
    /\ in \in [{1} -> Inputs]
    /\ Start({1})

Next ==
    \E p \in Procs :
        \/ Derive(p)
        \/ CheckStability(p)
        \/ Alloc(p)
        \/ PayoffStep(p)
        \/ BoundaryStep(p)
        \/ UpdateRowHead(p)
        \/ UpdateCell(p)
        \/ Return(p)

Spec == Init /\ [][Next]_vars

(***************************************************************************)
(* FinDiffCall as a function of its arguments: the value one call returns   *)
(* when it runs alone from its first statement to its return.              *)
(***************************************************************************)
\* row iv of the grid at the return of a call that passed the stability check
RECURSIVE GridRow(_, _)
GridRow(a, iv) ==
    LET dt   == RDiv(a.T, FromInt(a.N))
        Smax == RMul(FromInt(5), a.S0)
        dS   == RDiv(Smax, FromInt(a.M))
    IN  IF iv = 0
        THEN [b \in 0..a.M |->
                IF b = a.M THEN Smax
                ELSE IF b = 0 THEN Zero
                ELSE Payoff(b, dS, a.K)]
        ELSE LET prev == GridRow(a, iv - 1)
             IN  [b \in 0..a.M |->
                    IF b = a.M THEN Smax
                    ELSE IF b = 0 THEN Zero
                    ELSE UpdateValue(prev[b - 1], prev[b], prev[b + 1],
                                     b, dt, a.sigma, a.r)]

FinDiffCall(a) ==
    IF a.N = 0 \/ a.M = 0 THEN ZeroDivisionError
    ELSE IF StabilityDivisor(a) = Zero THEN ZeroDivisionError
    ELSE IF Unstable(RDiv(a.T, FromInt(a.N)), StabilityDivisor(a))
         THEN StabilityFailure
    ELSE IF a.S0 = Zero THEN ZeroDivisionError
    ELSE Number(GridRow(a, a.N)[j0(a.S0,
                  RDiv(RMul(FromInt(5), a.S0), FromInt(a.M)), a.dS_up)])

(***************************************************************************)
(* Two concurrent calls, each with its own locals and its own grid.        *)
(***************************************************************************)
PairInputs ==
    [S0 : {FromInt(1)}, K : {Q(1, 2)}, r : {FromInt(4)},
     sigma : {Q(1, 4), Q(1, 2)}, T : {FromInt(1)}, N : {3}, M : {5},
     dS_up : {FALSE}]
    \cup
    [S0 : {FromInt(2)}, K : {FromInt(1)}, r : {FromInt(0)},
     sigma : {Q(1, 2), FromInt(1)}, T : {FromInt(1)}, N : {2}, M : {2, 3},
     dS_up : {FALSE}]

InitPair ==
    /\ in \in [{1, 2} -> PairInputs]
    /\ Start({1, 2})

SpecPair == InitPair /\ [][Next]_vars

(***************************************************************************)
(* Vocabulary of the properties.                                           *)
(***************************************************************************)
Done(p) == pc[p] = "done"

\* the call has passed its stability check
Passed(p) ==
    \/ pc[p] \in {"alloc", "payoff", "boundary", "update_i", "update_j",
                  "return"}
    \/ Done(p) /\ ret[p].kind \in {"number", "IndexError"}

\* the boundary loop has finished
BoundaryDone(p) ==
    \/ pc[p] \in {"update_i", "update_j", "return"}
    \/ Done(p) /\ ret[p].kind = "number"

InGrid(a, cell) == cell[1] \in 0..a.N /\ cell[2] \in 0..a.M

Writes(p, op) == {n \in 1..Len(log[p]) : log[p][n].op = op}

\* the stability bound 1/(sigma^2*(M-1) + 0.5*r) is a number
BoundDefined(a) ==
    /\ a.N >= 1 /\ a.M >= 1
    /\ RAdd(RMul(RMul(a.sigma, a.sigma), FromInt(a.M - 1)),
            RMul(Q(1, 2), a.r)) # Zero

\* delta_t = T/N exceeds the stability bound
ExceedsBound(a) ==
    RLess(RDiv(One, RAdd(RMul(RMul(a.sigma, a.sigma), FromInt(a.M - 1)),
                         RMul(Q(1, 2), a.r))),
          RDiv(a.T, FromInt(a.N)))

C2_TwoOutcomes ==
    \A p \in Procs :
        (Valid(in[p]) /\ Done(p)) =>
            \/ ret[p].kind = "number" /\ RLeq(Zero, ret[p].val)
            \/ ret[p] = StabilityFailure

(***************************************************************************)
(* C3: once the boundary loop has finished, c(i,0) = 0 and c(i,M) = 5*S0   *)
(* for every row i in 0..N in every later state up to the return, and the  *)
(* interior update has written only cells of the columns 1..M-1.           *)
(***************************************************************************)
C3_BoundaryKept ==
    \A p \in Procs :
        BoundaryDone(p) =>
            /\ \A row \in 0..in[p].N :
                  /\ c[Owner(p)][row][0] = Zero
                  /\ c[Owner(p)][row][in[p].M] = RMul(FromInt(5), in[p].S0)
            /\ \A n \in Writes(p, "update") :
                  log[p][n].w[2] \in 1..(in[p].M - 1)

C3_Witness ==
    \E p \in Procs :
        /\ Done(p) /\ ret[p].kind = "number"
        /\ in[p].N >= 2 /\ in[p].M >= 3
        /\ Cardinality(Writes(p, "update")) = in[p].N * (in[p].M - 1)

(***************************************************************************)
(* C4: a call with a non-positive S0, K, T or sigma, a non-positive N or   *)
(* M, or M <= 1 is rejected before the stability inequality is evaluated   *)
(* and before any grid cell is written: it never passes the check and      *)
(* never gives a number or the stability-failure signal.                   *)
(***************************************************************************)
C4_InvalidRejected ==
    \A p \in Procs :
        ~(Valid(in[p]) /\ in[p].M > 1) =>
            /\ ~Passed(p)
            /\ log[p] = <<>>
            /\ ret[p].kind \notin {"number", "string"}

(***************************************************************************)
(* C5: every grid read and write uses a row index in 0..N and a column     *)
(* index in 0..M, the three reads of the update and the read of the return *)
(* included, and for S0 > 0 and M >= 1 the column floor(S0/delta_S) of the *)
(* return lies in 0..M.                                                    *)
(***************************************************************************)
C5_IndicesInGrid ==
    \A p \in Procs :
        /\ \A n \in 1..Len(log[p]) :
              /\ log[p][n].w # NoCell => InGrid(in[p], log[p][n].w)
              /\ \A x \in log[p][n].rd : InGrid(in[p], x)
        /\ ret[p].kind # "IndexError"
        /\ (Valid(in[p]) /\ pc[p] # "start") =>
              j0(in[p].S0, delta_S[p], in[p].dS_up) \in 0..in[p].M

C5_Witness ==
    \E p \in Procs :
        /\ Done(p) /\ ret[p].kind = "number" /\ in[p].M >= 5
        /\ \E n \in Writes(p, "update") :
              log[p][n].w[2] = in[p].M - 1 /\ Cardinality(log[p][n].rd) = 3
        /\ \E n \in Writes(p, "return") :
              \E x \in log[p][n].rd : x[1] = in[p].N /\ x[2] >= 1

(***************************************************************************)
(* C6: the value returned is c(N, j0) with j0 = floor(S0/delta_S), and j0  *)
(* is the grid node nearest S0: no column j in 0..M has j*delta_S closer   *)
(* to S0 than j0*delta_S.                                                  *)
(***************************************************************************)
Dist(p, col) == RAbs(RSub(RMul(FromInt(col), delta_S[p]), in[p].S0))

\* the column the return statement has read
ReturnedCol(p) ==
    CHOOSE col \in 0..in[p].M :
        \E x \in log[p][Len(log[p])].rd : x[2] = col

\* S0 < col*delta_S for the delta_S of the call (above its exact value when
\* dS_up)
BelowNode(p, col) ==
    \/ RLess(in[p].S0, RMul(FromInt(col), delta_S[p]))
    \/ in[p].dS_up /\ in[p].S0 = RMul(FromInt(col), delta_S[p])

C6_NearestNode ==
    \A p \in Procs :
        (Done(p) /\ ret[p].kind = "number") =>
            /\ ret[p].val = c[Owner(p)][in[p].N][ReturnedCol(p)]
            /\ \A col \in 0..in[p].M :
                  RLeq(Dist(p, ReturnedCol(p)), Dist(p, col))

\* C6 as amended: the value returned is c(N, j0) where j0 is the last grid
\* node at or below S0, j0*delta_S <= S0 < (j0+1)*delta_S, which need not
\* be the node nearest S0.
C6_NodeAtOrBelow ==
    \A p \in Procs :
        (Done(p) /\ ret[p].kind = "number") =>
            \E col \in 0..in[p].M :
                /\ RLeq(RMul(FromInt(col), delta_S[p]), in[p].S0)
                /\ BelowNode(p, col + 1)
                /\ ~BelowNode(p, col)
                /\ ret[p].val = c[Owner(p)][in[p].N][col]
                /\ log[p][Len(log[p])] =
                      Event("return", NoCell, {<<in[p].N, col, ret[p].val>>})

C6_Witness ==
    \E p \in Procs :
        /\ Done(p) /\ ret[p].kind = "number" /\ ~in[p].dS_up
        /\ \E col \in 0..in[p].M :
              RLess(Dist(p, col), Dist(p, ReturnedCol(p)))

(***************************************************************************)
(* C7: with S0, K, r, T, N, M fixed, a larger sigma does not give a        *)
(* smaller price: of two calls that differ in sigma only and both pass     *)
(* the stability check, the one with the smaller sigma returns at most     *)
(* what the other returns.                                                 *)
(***************************************************************************)
C7_MonotoneInSigma ==
    \A p, q \in Procs :
        ( /\ Done(p) /\ Done(q)
          /\ ret[p].kind = "number" /\ ret[q].kind = "number"
          /\ in[q] = [in[p] EXCEPT !.sigma = in[q].sigma]
          /\ RLeq(in[p].sigma, in[q].sigma) )
        => RLeq(ret[p].val, ret[q].val)

(***************************************************************************)
(* C8: a call is a deterministic function of its arguments: two calls with *)
(* equal arguments end with equal results, and under every interleaving of *)
(* the steps of two concurrent calls each call ends with the result it     *)
(* has when it runs alone.                                                 *)
(***************************************************************************)
C8_PureFunction ==
    \A p, q \in Procs :
        /\ Done(p) => ret[p] = FinDiffCall(in[p])
        /\ (Done(p) /\ Done(q) /\ in[p] = in[q]) => ret[p] = ret[q]

C8_Witness ==
    /\ Cardinality(Procs) = 2
    /\ \A p \in Procs : Done(p) /\ ret[p].kind = "number"
    /\ \E p, q \in Procs : in[p] # in[q] /\ ret[p] # ret[q]

(***************************************************************************)
(* C9: when the recurrence starts, c(0,j) = max(j*delta_S - K, 0) for      *)
(* every column j in 0..M, the end columns 0 and M included.               *)
(***************************************************************************)
RecurrenceStarts(p) == pc[p] = "update_i" /\ Writes(p, "update") = {}

CallPayoff(p, col) ==
    LET v == RSub(RMul(FromInt(col), delta_S[p]), in[p].K)
    IN  IF RLess(Zero, v) THEN v ELSE Zero

ReadsPreviousRowFinal(p) ==
    \A n \in Writes(p, "update") :
        LET e == log[p][n] IN
        /\ e.w[1] \in 1..in[p].N /\ e.w[2] \in 1..(in[p].M - 1)
        /\ {<<x[1], x[2]>> : x \in e.rd} =
              {<<e.w[1] - 1, e.w[2] - 1>>, <<e.w[1] - 1, e.w[2]>>,
               <<e.w[1] - 1, e.w[2] + 1>>}
        /\ \A x \in e.rd : c[Owner(p)][x[1]][x[2]] = x[3]

C10_RowOrder ==
    \A p \in Procs :
        /\ ReadsPreviousRowFinal(p)
        /\ \A m, n \in 1..Len(log[p]) :
              (m < n /\ log[p][m].w # NoCell /\ log[p][n].w # NoCell)
                  => log[p][n].w[1] # log[p][m].w[1] - 1

\* C10 as amended: the write of c(i,j) reads exactly c(i-1,j-1), c(i-1,j)
\* and c(i-1,j+1), the three hold their final values when they are read,
\* and no cell of row i-1 is written after the first write of the
\* recurrence to row i (the boundary loop writes the end cells of every
\* row, row i included, before the recurrence writes row i-1).
C10_RowOrderOfUpdates ==
    \A p \in Procs :
        /\ ReadsPreviousRowFinal(p)
        /\ \A m \in Writes(p, "update") :
              \A n \in 1..Len(log[p]) :
                  (m < n /\ log[p][n].w # NoCell)
                      => log[p][n].w[1] # log[p][m].w[1] - 1

C10_Witness ==
    \E p \in Procs :
        /\ Done(p) /\ ret[p].kind = "number"
        /\ in[p].N >= 2 /\ in[p].M >= 3
        /\ \E m \in Writes(p, "boundary") : \E n \in Writes(p, "update") :
              m < n /\ log[p][n].w[1] = log[p][m].w[1] - 1

(***************************************************************************)
(* C12: whenever a call with r >= 0 passes its stability check, the factor *)
(* 1 - r*delta_t - sigma^2*j^2*delta_t of c(i-1,j) in the update is        *)
(* non-negative for every interior column j in 1..M-1.                     *)
(***************************************************************************)
C12_MidWeightNonNegative ==
    \A p \in Procs :
        (Passed(p) /\ RLeq(Zero, in[p].r)) =>
            \A col \in 1..(in[p].M - 1) :
                RLeq(Zero, MidWeight(col, delta_t[p], in[p].sigma, in[p].r))

(***************************************************************************)
(* C13: a call with 1 <= M <= 4 that passes the stability check reads its  *)
(* result from column 0 and returns exactly 0; a call with M >= 5 reads    *)
(* its result from an interior column 1 <= j0 <= M-1.                      *)
(***************************************************************************)
C13_ResultColumn ==
    \A p \in Procs :
        (Done(p) /\ ret[p].kind = "number") =>
            /\ in[p].M \in 1..4 => ReturnedCol(p) = 0 /\ ret[p].val = Zero
            /\ in[p].M >= 5 => ReturnedCol(p) \in 1..(in[p].M - 1)

(***************************************************************************)
(* CRRCall, the binomial-tree pricer.  np.exp(sigma*np.sqrt(delta_t)) and  *)
(* np.exp(r*delta_t) are not rational: their values for the arguments of   *)
(* the call are the fields exp_up (> 1) and exp_r of the argument record,  *)
(* np.exp(-x) is 1/np.exp(x).                                              *)
(***************************************************************************)
CRRInputs ==
    [S0 : S0s, K : Ks, r : {Q(1, 4)}, sigma : {Q(1, 2)}, T : {FromInt(1)},
     N : 0..MaxN, exp_up : {Q(3, 2), FromInt(2)}, exp_r : {One, Q(5, 4)}]

\* max( S0*math.pow(u,j)*math.pow(d,N-j) - K, 0)
CRRPayoff(S0, K, uv, dv, N, jv) ==
    RMax(RSub(RMul(RMul(S0, pow(uv, jv)), pow(dv, N - jv)), K), Zero)

\* np.exp(-r * delta_t)*( p*c[i+1][j+1] + (1-p)*c[i+1][j] )
CRRValue(discount, pv, up, down) ==
    RMul(discount, RAdd(RMul(pv, up), RMul(RSub(One, pv), down)))

\* range(N+1) of the loop over the last row
CRRLastCols(N) == range(0, N + 1)

\* the outer loop running forwards over the rows
CRRRowsForward(N) == range3(0, N, 1)

\* range(N-1, -1, -1) of the outer loop
CRRRows(N) == range3(N - 1, -1, -1)

\* range(i+1) of the inner loop
CRRCols(iv) == range(0, iv + 1)

\* delta_t = T/N; u = ...; d = ...; p = (np.exp(r*delta_t) - d)/(u - d)
CRRDerive(p) ==
    /\ pc[p] = "crr_start"
    /\ LET a == in[p] IN
       IF a.N = 0
       THEN /\ pc' = [pc EXCEPT ![p] = "done"]
            /\ ret' = [ret EXCEPT ![p] = ZeroDivisionError]
            /\ UNCHANGED <<delta_t, u, d, prob>>
       ELSE /\ delta_t' = [delta_t EXCEPT ![p] = RDiv(a.T, FromInt(a.N))]
            /\ u' = [u EXCEPT ![p] = a.exp_up]
            /\ d' = [d EXCEPT ![p] = RDiv(One, a.exp_up)]
            /\ prob' = [prob EXCEPT ![p] =
                           RDiv(RSub(a.exp_r, d'[p]), RSub(u'[p], d'[p]))]
            /\ pc' = [pc EXCEPT ![p] = "crr_alloc"]
            /\ UNCHANGED ret
    /\ UNCHANGED <<in, S_max, delta_S, c, i, j, log>>

\* c = [[0 for i in range(N+1)] for j in range(N+1)]
CRRAlloc(p) ==
    /\ pc[p] = "crr_alloc"
    /\ c' = [c EXCEPT ![Owner(p)] = NewGrid(in[p].N, in[p].N)]
    /\ j' = [j EXCEPT ![p] = CRRLastCols(in[p].N).start]
    /\ pc' = [pc EXCEPT ![p] = "crr_last"]
    /\ UNCHANGED <<in, delta_t, S_max, delta_S, i, ret, log, u, d, prob>>

\* for j in range(N+1): c[N][j] = max( S0*pow(u,j)*pow(d,N-j) - K, 0)
CRRLastRow(p) ==
    /\ pc[p] = "crr_last"
    /\ LET g == c[Owner(p)]
           a == in[p]
       IN
       IF ~InRange(j[p], CRRLastCols(a.N))
       THEN /\ i' = [i EXCEPT ![p] = CRRRows(a.N).start]
            /\ pc' = [pc EXCEPT ![p] = "crr_i"]
            /\ UNCHANGED <<c, j, ret, log>>
       ELSE /\ log' = [log EXCEPT ![p] =
                          Append(@, Event("last", <<a.N, j[p]>>, {}))]
            /\ IF CellOk(g, a.N, j[p])
               THEN /\ c' = [c EXCEPT ![Owner(p)] =
                                Put(g, a.N, j[p],
                                    CRRPayoff(a.S0, a.K, u[p], d[p],
                                              a.N, j[p]))]
                    /\ j' = [j EXCEPT ![p] = @ + 1]
                    /\ UNCHANGED <<pc, ret>>
               ELSE /\ pc' = [pc EXCEPT ![p] = "done"]
                    /\ ret' = [ret EXCEPT ![p] = IndexError]
                    /\ UNCHANGED <<c, j>>
            /\ UNCHANGED i
    /\ UNCHANGED <<in, delta_t, S_max, delta_S, u, d, prob>>

\* for i in range(N-1, -1, -1): (the head of the outer loop)
CRRRowHead(p) ==
    /\ pc[p] = "crr_i"
    /\ IF InRange3(i[p], CRRRows(in[p].N))
       THEN /\ j' = [j EXCEPT ![p] = CRRCols(i[p]).start]
            /\ pc' = [pc EXCEPT ![p] = "crr_j"]
       ELSE /\ pc' = [pc EXCEPT ![p] = "crr_return"]
            /\ UNCHANGED j
    /\ UNCHANGED <<in, delta_t, S_max, delta_S, c, i, ret, log, u, d, prob>>

\* for j in range(i+1): c[i][j] = np.exp(-r * delta_t)*
\*                                  ( p*c[i+1][j+1] + (1-p)*c[i+1][j] )
CRRCell(p) ==
    /\ pc[p] = "crr_j"
    /\ LET g   == c[Owner(p)]
           a   == in[p]
           ok1 == CellOk(g, i[p] + 1, j[p] + 1)
           ok2 == ok1 /\ CellOk(g, i[p] + 1, j[p])
           rds == {<<i[p] + 1, j[p] + 1>>}
                    \cup (IF ok1 THEN {<<i[p] + 1, j[p]>>} ELSE {})
           reads == {<<x[1], x[2],
                       IF CellOk(g, x[1], x[2]) THEN Get(g, x[1], x[2])
                                                ELSE Zero>> : x \in rds}
       IN
       IF ~InRange(j[p], CRRCols(i[p]))
       THEN /\ i' = [i EXCEPT ![p] = @ + CRRRows(a.N).step]
            /\ pc' = [pc EXCEPT ![p] = "crr_i"]
            /\ UNCHANGED <<c, j, ret, log>>
       ELSE /\ log' = [log EXCEPT ![p] =
                          Append(@, Event("induct", <<i[p], j[p]>>, reads))]
            /\ IF ok2 /\ CellOk(g, i[p], j[p])
               THEN /\ c' = [c EXCEPT ![Owner(p)] =
                                Put(g, i[p], j[p],
                                    CRRValue(RDiv(One, a.exp_r), prob[p],
                                             Get(g, i[p] + 1, j[p] + 1),
                                             Get(g, i[p] + 1, j[p])))]
                    /\ j' = [j EXCEPT ![p] = @ + 1]
                    /\ UNCHANGED <<pc, ret>>
               ELSE /\ pc' = [pc EXCEPT ![p] = "done"]
                    /\ ret' = [ret EXCEPT ![p] = IndexError]
                    /\ UNCHANGED <<c, j>>
            /\ UNCHANGED i
    /\ UNCHANGED <<in, delta_t, S_max, delta_S, u, d, prob>>

\* return c[0][0]
CRRReturn(p) ==
    /\ pc[p] = "crr_return"
    /\ pc' = [pc EXCEPT ![p] = "done"]
    /\ LET g == c[Owner(p)] IN
       IF CellOk(g, 0, 0)
       THEN /\ ret' = [ret EXCEPT ![p] = Number(Get(g, 0, 0))]
            /\ log' = [log EXCEPT ![p] = Append(@,
                 Event("return", NoCell, {<<0, 0, Get(g, 0, 0)>>}))]
       ELSE /\ ret' = [ret EXCEPT ![p] = IndexError]
            /\ log' = [log EXCEPT ![p] = Append(@,
                 Event("return", NoCell, {<<0, 0, Zero>>}))]
    /\ UNCHANGED <<in, delta_t, S_max, delta_S, c, i, j, u, d, prob>>

\* one call of CRRCall, with any arguments of the input sets
InitCRR ==
    /\ in \in [{1} -> CRRInputs]
    /\ StartAt({1}, [p \in {1} |-> "crr_start"])

NextCRR ==
    \E p \in Procs :
        \/ CRRDerive(p)
        \/ CRRAlloc(p)
        \/ CRRLastRow(p)
        \/ CRRRowHead(p)
        \/ CRRCell(p)
        \/ CRRReturn(p)

SpecCRR == InitCRR /\ [][NextCRR]_vars

(***************************************************************************)
(* C14: in CRRCall with N >= 1, row N is written for every j in 0..N       *)
(* before any other row; every write of c(i,j) of the backward induction   *)
(* has 0 <= i <= N-1 and 0 <= j <= i and reads c(i+1,j) and c(i+1,j+1),    *)
(* j+1 <= i+1 <= N, after both have got their final value; every cell with *)
(* j <= i is written exactly once; and the value returned is c(0,0), read  *)
(* after row 0 has been written.                                           *)
(***************************************************************************)
Triangle(N) == {cell \in (0..N) \X (0..N) : cell[2] <= cell[1]}

WrittenBefore(p, n) == {log[p][m].w : m \in 1..(n - 1)} \ {NoCell}

C14_BackwardInduction ==
    \A p \in Procs :
        LET N == in[p].N
            L == log[p]
        IN  N >= 1 =>
            /\ \A n \in Writes(p, "last") : n <= N + 1 /\ L[n].w = <<N, n - 1>>
            /\ \A n \in Writes(p, "induct") :
                  LET iv == L[n].w[1]
                      jv == L[n].w[2]
                  IN  /\ n > N + 1
                      /\ {<<N, k>> : k \in 0..N} \subseteq WrittenBefore(p, n)
                      /\ iv \in 0..(N - 1) /\ jv \in 0..iv
                      /\ {<<x[1], x[2]>> : x \in L[n].rd} =
                            {<<iv + 1, jv>>, <<iv + 1, jv + 1>>}
                      /\ \A x \in L[n].rd :
                            /\ <<x[1], x[2]>> \in Triangle(N)
                            /\ <<x[1], x[2]>> \in WrittenBefore(p, n)
                            /\ c[Owner(p)][x[1]][x[2]] = x[3]
            /\ \A m, n \in 1..Len(L) :
                  (m # n /\ L[m].w # NoCell) => L[m].w # L[n].w
            /\ WrittenBefore(p, Len(L) + 1) \subseteq Triangle(N)
            /\ ret[p].kind \in {"none", "number"}
            /\ Done(p) =>
                  /\ WrittenBefore(p, Len(L)) = Triangle(N)
                  /\ L[Len(L)] = Event("return", NoCell, {<<0, 0, ret[p].val>>})
                  /\ L[Len(L) - 1].w = <<0, 0>>
                  /\ ret[p] = Number(c[Owner(p)][0][0])

C14_Witness ==
    \E p \in Procs :
        /\ Done(p) /\ ret[p].kind = "number" /\ in[p].N >= 2
        /\ RLess(Zero, ret[p].val)
        /\ Cardinality(Writes(p, "induct")) =
              Cardinality(Triangle(in[p].N - 1))

(***************************************************************************)
(* The solver with two alternating row buffers that the design notes       *)
(* recommend: the same derived constants, stability check, initialisation, *)
(* boundary values and update rule as FinDiffCall, with row i kept in      *)
(* buffer i % 2 and computed from buffer (i-1) % 2.  The two buffers of a  *)
(* call are the rows 0 and 1 of its c.                                     *)
(***************************************************************************)
\* the buffer that holds row iv
Buffer(iv) == iv % 2

\* derived constants and stability check
BufStart(p) ==
    /\ pc[p] = "buf_start"
    /\ LET a == in[p] IN
       IF a.N = 0 \/ a.M = 0 \/ StabilityDivisor(a) = Zero
       THEN /\ pc' = [pc EXCEPT ![p] = "done"]
            /\ ret' = [ret EXCEPT ![p] = ZeroDivisionError]
            /\ UNCHANGED <<delta_t, S_max, delta_S>>
       ELSE /\ delta_t' = [delta_t EXCEPT ![p] = RDiv(a.T, FromInt(a.N))]
            /\ S_max' = [S_max EXCEPT ![p] = RMul(FromInt(5), a.S0)]
            /\ delta_S' = [delta_S EXCEPT ![p] =
                              RDiv(S_max'[p], FromInt(a.M))]
            /\ IF Unstable(delta_t'[p], StabilityDivisor(a))
               THEN /\ pc' = [pc EXCEPT ![p] = "done"]
                    /\ ret' = [ret EXCEPT ![p] = StabilityFailure]
               ELSE /\ pc' = [pc EXCEPT ![p] = "buf_init"]
                    /\ UNCHANGED ret
    /\ UNCHANGED <<in, c, i, j, log, u, d, prob>>

\* the two buffers are allocated and buffer 0 gets row 0: the payoff, then
\* the boundary values; buffer 1 gets its boundary values
BufInit(p) ==
    /\ pc[p] = "buf_init"
    /\ LET M == in[p].M IN
       c' = [c EXCEPT ![Owner(p)] =
               [b \in 0..1 |-> [col \in 0..M |->
                   IF col = M THEN S_max[p]
                   ELSE IF col = 0 THEN Zero
                   ELSE IF b = 0 THEN Payoff(col, delta_S[p], in[p].K)
                   ELSE Zero]]]
    /\ i' = [i EXCEPT ![p] = 1]
    /\ j' = [j EXCEPT ![p] = 1]
    /\ pc' = [pc EXCEPT ![p] = "buf_row"]
    /\ UNCHANGED <<in, delta_t, S_max, delta_S, ret, log, u, d, prob>>

\* one interior cell of row i, or the end of row i
BufCell(p) ==
    /\ pc[p] = "buf_row"
    /\ LET g    == c[Owner(p)]
           a    == in[p]
           cur  == Buffer(i[p])
           prev == Buffer(i[p] - 1)
       IN
       IF i[p] > a.N
       THEN /\ pc' = [pc EXCEPT ![p] = "buf_return"]
            /\ UNCHANGED <<c, i, j>>
       ELSE IF j[p] > a.M - 1
       THEN /\ i' = [i EXCEPT ![p] = @ + 1]
            /\ j' = [j EXCEPT ![p] = 1]
            /\ UNCHANGED <<c, pc>>
       ELSE /\ c' = [c EXCEPT ![Owner(p)][cur][j[p]] =
                        UpdateValue(g[prev][j[p] - 1], g[prev][j[p]],
                                    g[prev][j[p] + 1], j[p], delta_t[p],
                                    a.sigma, a.r)]
            /\ j' = [j EXCEPT ![p] = @ + 1]
            /\ UNCHANGED <<pc, i>>
    /\ UNCHANGED <<in, delta_t, S_max, delta_S, ret, log, u, d, prob>>

\* the result is read from the buffer of row N
BufReturn(p) ==
    /\ pc[p] = "buf_return"
    /\ pc' = [pc EXCEPT ![p] = "done"]
    /\ ret' = [ret EXCEPT ![p] =
                 Number(c[Owner(p)][Buffer(in[p].N)]
                         [j0(in[p].S0, delta_S[p], in[p].dS_up)])]
    /\ UNCHANGED <<in, delta_t, S_max, delta_S, c, i, j, log, u, d, prob>>

BufInputs ==
    [S0 : {FromInt(1)}, K : Ks, r : {FromInt(0), FromInt(1)},
     sigma : {Q(1, 2)}, T : Ts, N : 1..MaxN, M : 1..MaxM, dS_up : {FALSE}]

\* a call of FinDiffCall (the call with the lower number) and a call of the
\* two-buffer solver with the same arguments
InitBuf ==
    /\ in \in [{1, 2} -> BufInputs]
    /\ in[1] = in[2]
    /\ StartAt({1, 2}, <<"start", "buf_start">>)

NextBuf ==
    \E p \in Procs :
        \/ Derive(p)
        \/ CheckStability(p)
        \/ Alloc(p)
        \/ PayoffStep(p)
        \/ BoundaryStep(p)
        \/ UpdateRowHead(p)
        \/ UpdateCell(p)
        \/ Return(p)
        \/ BufStart(p)
        \/ BufInit(p)
        \/ BufCell(p)
        \/ BufReturn(p)

SpecBuf == InitBuf /\ [][NextBuf]_vars

(***************************************************************************)
(* C11: the two-buffer solver returns, for every input, the result of      *)
(* FinDiffCall with its full grid, and after step i its current buffer     *)
(* equals row i of the full grid, for every i in 0..N.                     *)
(***************************************************************************)
C11_TwoBuffers ==
    \A p, q \in Procs :
        (p < q /\ Done(p)) =>
            /\ Done(q) => ret[q] = ret[p]
            /\ ret[p].kind # "number" => c[Owner(q)] = NoGrid
            /\ pc[q] = "buf_row" =>
                  c[Owner(q)][Buffer(i[q] - 1)] = c[Owner(p)][i[q] - 1]
            /\ (pc[q] = "buf_return" \/ (Done(q) /\ ret[q].kind = "number"))
                  => c[Owner(q)][Buffer(in[q].N)] = c[Owner(p)][in[p].N]

C11_Witness ==
    \E p, q \in Procs :
        /\ p < q /\ Done(p) /\ Done(q)
        /\ Rows(c[Owner(q)]) = 2 /\ Rows(c[Owner(p)]) = in[p].N + 1
        /\ in[p].N >= 3 /\ in[p].M >= 5
        /\ ret[q].kind = "number" /\ RLess(Zero, ret[q].val)

====
